---- MODULE Spec2Model ----
(***************************************************************************)
(* Model of the /predict request handler of src/app.py: model check,       *)
(* upload validation, temporary file, rasterization, the pool of OCR       *)
(* tasks with its as_completed collection loop, the sequential             *)
(* classification loop, cleanup and the response.                          *)
(*                                                                         *)
(* Texts and file names are sequences of one-character strings.  Python's  *)
(* None is the record None; a float is the record Float(x).                *)
(***************************************************************************)
EXTENDS Integers, Sequences, FiniteSets, TLC

\* ------------------------------------------------------------------ bounds
\* Largest number of pages a rasterized upload has in the model.
MaxPages == 5

\* ------------------------------------------------------- program constants
max_workers_OneMore == 4 + 1

\* ThreadPoolExecutor(max_workers=4)
max_workers == 4

None == [tag |-> "None"]
\* A local variable that was never assigned (reading it raises NameError).
Unbound == [tag |-> "unbound"]
\* The evaluation raised an exception instead of giving a value.
Raised == [tag |-> "raised"]
Path(name) == [tag |-> "path", name |-> name]
Float(x) == [tag |-> "float", val |-> x]

\* ---------------------------------------------------------------- requests
PdfSuffix == <<".", "p", "d", "f">>

\* str.lower() on the characters that occur in the modelled file names.
LowerChar(c) ==
    CASE c = "A" -> "a"
      [] c = "P" -> "p"
      [] c = "D" -> "d"
      [] c = "F" -> "f"
      [] OTHER -> c

Lower(s) == [k \in 1..Len(s) |-> LowerChar(s[k])]

\* str.endswith(suffix)
EndsWith(s, suffix) ==
    /\ Len(s) >= Len(suffix)
    /\ SubSeq(s, Len(s) - Len(suffix) + 1, Len(s)) = suffix

IsPdfName_NoDot(name) == EndsWith(Lower(name), <<"p", "d", "f">>)

\* file.filename.lower().endswith('.pdf')
IsPdfName(name) == EndsWith(Lower(name), PdfSuffix)

\* The multipart requests a client can send: without a 'file' part, with an
\* empty file name, with names that are not PDF names, and with PDF names.
FileNames ==
    { <<>>,
      <<"a", ".", "t", "x", "t">>,
      <<"a", "p", "d", "f">>,
      <<"a", ".", "p", "d", "f", ".", "t">>,
      <<"A", ".", "P", "d", "F">> }

Requests ==
    { [hasFile |-> FALSE, filename |-> <<>>] }
    \cup { [hasFile |-> TRUE, filename |-> f] : f \in FileNames }

\* ------------------------------------------------------------------ images
\* A page image is the sequence of text lines printed on it; a blank page
\* has none.  Page i of an uploaded document carries i lines, except that
\* every third page is blank, so that pages differ in their text.
LineOf(k) == IF k % 2 = 1 THEN <<"x">> ELSE <<"y", "z">>

PageImage(i) ==
    IF i % 3 = 0
    THEN <<>>
    ELSE [k \in 1..i |-> LineOf(k)]

\* convert_from_path(temp_path, dpi=200): the list of page images of an
\* upload of n pages
Document(n) == [i \in 1..n |-> PageImage(i)]

\* ocr_engine.ocr(np.array(img), cls=True): one entry per image, None when
\* nothing is detected, else a list of [box, (text, score)] lines.
OcrEngine(img) ==
    IF img = <<>>
    THEN << None >>
    ELSE << [tag |-> "lines",
             lines |-> [k \in 1..Len(img) |-> << "box", << img[k], 99 >> >>]] >>

\* " ".join(text_lines)
RECURSIVE Join(_)
Join(lines) ==
    IF Len(lines) = 0 THEN <<>>
    ELSE IF Len(lines) = 1 THEN lines[1]
    ELSE lines[1] \o <<" ">> \o Join(Tail(lines))

\* Lines 43-46 of ocr_page: the page text of an engine result.
PageText(result) ==
    IF Len(result) > 0 /\ result[1] # None
    THEN Join([k \in 1..Len(result[1].lines) |-> result[1].lines[k][2][1]])
    ELSE <<>>

ocr_page_KeepText(page_index, img, engineFaults) ==
    << page_index, PageText(OcrEngine(img)) >>

\* ocr_page((page_index, img)): the pair (page_index, text); a fault of the
\* engine is caught and gives the empty text.
ocr_page(page_index, img, engineFaults) ==
    IF engineFaults
    THEN << page_index, <<>> >>
    ELSE << page_index, PageText(OcrEngine(img)) >>

\* -------------------------------------------------------------- classifier
\* The loaded classifier is an opaque collaborator: a fixed function from a
\* text to a label and to a vector of class probabilities (in percent).
Labels == <<"Note", "Mortgage", "UNLABELED">>

\* doc_model.predict([text]): a one-element batch of labels
Predict(text) == << Labels[(Len(text) % 3) + 1] >>

\* doc_model.predict_proba([text]): a one-element batch of probability rows
PredictProba(text) ==
    << IF Len(text) = 0 THEN <<10, 20, 70>>
       ELSE IF Len(text) % 2 = 1 THEN <<60, 30, 10>>
       ELSE <<5, 90, 5>> >>

\* max(row)
Max(row) == CHOOSE m \in {row[k] : k \in 1..Len(row)} :
                \A k \in 1..Len(row) : row[k] <= m

\* The outcomes of the two classifier calls for one page: both return, the
\* call of predict raises, or the call of predict_proba raises, either an
\* AttributeError from inside the model or an exception of another type.
ClassifyOutcomes ==
    {"ok", "predict_fault", "proba_fault", "proba_attribute_error"}

\* Lines 123-128: the confidence.  The handler of AttributeError gives None
\* both when the model has no predict_proba and when the call itself raises
\* an AttributeError; any other exception leaves the inner try (Raised).
Confidence(model, text, outcome) ==
    IF ~model.has_proba \/ outcome = "proba_attribute_error" THEN None
    ELSE IF outcome = "proba_fault" THEN Raised
    ELSE Float(Max(PredictProba(text)[1]))

PredictionEntry_ZeroBased(i, label, confidence, text) ==
    [page |-> i, predicted_label |-> label,
     confidence |-> confidence, text_length |-> Len(text)]

\* Lines 130-135
PredictionEntry(i, label, confidence, text) ==
    [page |-> i + 1, predicted_label |-> label,
     confidence |-> confidence, text_length |-> Len(text)]

\* Lines 118-143: the entry appended for page index i.
ClassifyPage(i, text, model, outcome) ==
    IF outcome = "predict_fault" \/ Confidence(model, text, outcome) = Raised
    THEN PredictionEntry(i, "PREDICTION_ERROR", None, text)
    ELSE PredictionEntry(i, Predict(text)[1], Confidence(model, text, outcome), text)

\* ------------------------------------------------------------------- state
VARIABLES
    doc_model,      \* None, or the classifier loaded at startup
    request,        \* the multipart request being handled
    pc,             \* the handler's position
    temp_exists,    \* the temporary file is on disk
    temp_path,      \* the local temp_path: Unbound until assigned
    images,         \* the rasterized pages
    fut,            \* page index -> state of its OCR future
    fut_result,     \* page index -> what the finished future holds
    collected,      \* futures already yielded by as_completed
    page_texts,     \* the dict page_texts
    predictions,    \* the list predictions
    response,       \* None, or the response sent
    hist            \* history: faults injected and calls made

vars == << doc_model, request, pc, temp_exists, temp_path, images, fut,
           fut_result, collected, page_texts, predictions, response, hist >>

\* dict.get(key, default)
Get(d, key, default) == IF key \in DOMAIN d THEN d[key] ELSE default

\* d[key] = value
Put(d, key, value) ==
    [k \in (DOMAIN d) \cup {key} |-> IF k = key THEN value ELSE d[k]]

NumPages == Len(images)
Pages == 0..(NumPages - 1)
Submitted == DOMAIN fut
Running == {i \in Submitted : fut[i] \in {"running", "hung"}}
Queued == {i \in Submitted : fut[i] = "queued"}

Models == { None,
            [tag |-> "model", has_proba |-> TRUE],
            [tag |-> "model", has_proba |-> FALSE] }

\* History kept beside the program's state: the top-level fault that
\* occurred, the pages whose recognition faulted, per classified page whether
\* its classification faulted, how often each key of page_texts was written,
\* whether the as_completed loop, while it runs, has yielded the futures in
\* reverse page order, and counts of calls.
NoHistory ==
    [top_fault |-> "none", ocr_faulted |-> {}, outcomes |-> <<>>,
     writes |-> <<>>, reverse |-> TRUE, temp_created |-> FALSE, saves |-> 0,
     rasters |-> 0, responses |-> 0]

Init ==
    /\ doc_model \in Models
    /\ request \in Requests
    /\ pc = "check_model"
    /\ temp_exists = FALSE
    /\ temp_path = Unbound
    /\ images = <<>>
    /\ fut = <<>>
    /\ fut_result = <<>>
    /\ collected = {}
    /\ page_texts = <<>>
    /\ predictions = <<>>
    /\ response = None
    /\ hist = NoHistory

\* return jsonify(body), status: the response is sent and the handler ends;
\* h is the history of the step that replies.
Reply(h, status, body) ==
    /\ response' = [status |-> status, body |-> body]
    /\ hist' = [h EXCEPT !.responses = @ + 1]
    /\ pc' = "done"

\* os.unlink(path) raises when the name is unbound (NameError) or no such
\* file exists (FileNotFoundError); otherwise the file is gone afterwards.
UnlinkRaises(path, exists) == path = Unbound \/ ~exists

\* Lines 159-162: try: os.unlink(temp_path) / except: pass.  Whether the
\* temporary file exists afterwards.
CleanupAfterFault(path, exists) ==
    IF UnlinkRaises(path, exists) THEN exists ELSE FALSE

FailurePayload_NoDetails(fault) == [error |-> "Failed to process PDF"]

\* Line 165: details is str(e)
FailurePayload(fault) ==
    [error |-> "Failed to process PDF", details |-> fault]

\* Lines 157-165: the handler of the outer try, entered by the exception
\* `fault` of a step that left the local temp_path and the file as given.
HandleException(h, fault, path, exists) ==
    /\ temp_exists' = CleanupAfterFault(path, exists)
    /\ Reply([h EXCEPT !.top_fault = fault], 500, FailurePayload(fault))

ModelMissing_Unchecked == FALSE

\* Lines 70-71
ModelMissing == doc_model = None

CheckModel ==
    /\ pc = "check_model"
    /\ IF ModelMissing
       THEN Reply(hist, 503,
                  [error |-> "Document classification model not loaded. Cannot perform prediction."])
       ELSE /\ pc' = "validate"
            /\ UNCHANGED << response, hist >>
    /\ UNCHANGED << doc_model, request, temp_exists, temp_path, images, fut,
                    fut_result, collected, page_texts, predictions >>

\* Lines 73-81: the error message of a rejected request, None when accepted.
ValidationError(req) ==
    IF ~req.hasFile THEN [error |-> "No file part in the request"]
    ELSE IF req.filename = <<>> THEN [error |-> "No file selected for uploading"]
    ELSE IF ~IsPdfName(req.filename) THEN [error |-> "Only PDF files are supported"]
    ELSE None

Validate ==
    /\ pc = "validate"
    /\ IF ValidationError(request) # None
       THEN Reply(hist, 400, ValidationError(request))
       ELSE /\ pc' = "save"
            /\ UNCHANGED << response, hist >>
    /\ UNCHANGED << doc_model, request, temp_exists, temp_path, images, fut,
                    fut_result, collected, page_texts, predictions >>

\* Lines 86-87: file.save(temp_file.name); temp_path = temp_file.name.
\* When save faults the assignment of temp_path is not reached.
SavedPath(ok) == IF ok THEN Path("tmp.pdf") ELSE Unbound

\* Lines 85-87: the temporary file is created (delete=False) and the upload
\* saved into it.  Creating the file may fault, and then no file exists;
\* saving may fault, and then the file exists.
SaveUpload ==
    /\ pc = "save"
    /\ \/ /\ HandleException(hist, "mktemp", temp_path, temp_exists)
          /\ temp_path' = temp_path
       \/ \E ok \in BOOLEAN :
            LET h == [hist EXCEPT !.temp_created = TRUE, !.saves = @ + 1]
            IN  /\ temp_path' = SavedPath(ok)
                /\ IF ok
                   THEN /\ temp_exists' = TRUE
                        /\ hist' = h
                        /\ pc' = "rasterize"
                        /\ response' = response
                   ELSE HandleException(h, "save", SavedPath(ok), TRUE)
    /\ UNCHANGED << doc_model, request, images, fut, fut_result, collected,
                    page_texts, predictions >>

\* Line 91: images = convert_from_path(temp_path, dpi=200)
Rasterize ==
    /\ pc = "rasterize"
    /\ \/ /\ \E n \in 0..MaxPages : images' = Document(n)
          /\ hist' = [hist EXCEPT !.rasters = @ + 1]
          /\ pc' = "ocr"
          /\ UNCHANGED << temp_exists, response >>
       \/ /\ images' = images
          /\ HandleException([hist EXCEPT !.rasters = @ + 1], "rasterize",
                             temp_path, temp_exists)
    /\ UNCHANGED << doc_model, request, temp_path, fut, fut_result,
                    collected, page_texts, predictions >>

\* ------------------------------------------------------------ the OCR pool
\* Lines 99-102: executor.submit(ocr_page, (i, img)) for the next page; the
\* pool's threads may already run earlier tasks while later ones are
\* submitted.
Submit ==
    /\ pc = "ocr"
    /\ Cardinality(Submitted) < NumPages
    /\ fut' = Put(fut, Cardinality(Submitted), "queued")
    /\ UNCHANGED << doc_model, request, pc, temp_exists, temp_path, images,
                    fut_result, collected, page_texts, predictions, response,
                    hist >>

\* A pool thread is free to take a task: at most max_workers threads exist.
WorkerFree == Cardinality(Running) < max_workers

\* The work queue is first in, first out.
NextQueued == CHOOSE i \in Queued : \A j \in Queued : i <= j

WorkerStart ==
    /\ Queued # {}
    /\ WorkerFree
    /\ fut' = [fut EXCEPT ![NextQueued] = "running"]
    /\ UNCHANGED << doc_model, request, pc, temp_exists, temp_path, images,
                    fut_result, collected, page_texts, predictions, response,
                    hist >>

\* The task of page index i returns: ocr_page ran, with or without a fault
\* of the engine.
WorkerFinish(i) ==
    /\ i \in Submitted
    /\ fut[i] = "running"
    /\ \E engineFaults \in BOOLEAN :
         /\ fut_result' = Put(fut_result, i,
                              [tag |-> "value",
                               value |-> ocr_page(i, images[i + 1], engineFaults)])
         /\ hist' = [hist EXCEPT !.ocr_faulted =
                                   IF engineFaults THEN @ \cup {i} ELSE @]
    /\ fut' = [fut EXCEPT ![i] = "done"]
    /\ UNCHANGED << doc_model, request, pc, temp_exists, temp_path, images,
                    collected, page_texts, predictions, response >>

\* The engine never returns for page index i: its thread stays occupied.
WorkerHang(i) ==
    /\ i \in Submitted
    /\ fut[i] = "running"
    /\ fut' = [fut EXCEPT ![i] = "hung"]
    /\ UNCHANGED << doc_model, request, pc, temp_exists, temp_path, images,
                    fut_result, collected, page_texts, predictions, response,
                    hist >>

\* Lines 105-111: the body of the as_completed loop for the future that was
\* submitted for page index page_num.
StoredKey(page_num, result) ==
    IF result.tag = "value" THEN result.value[1] ELSE page_num

StoreResult_ByArrival(texts, page_num, result) ==
    Put(texts, Cardinality(DOMAIN texts), result.value[2])

StoreResult(texts, page_num, result) ==
    IF result.tag = "value"
    THEN Put(texts, StoredKey(page_num, result), result.value[2])
    ELSE Put(texts, StoredKey(page_num, result), <<>>)

\* Line 104: as_completed yields each finished future once, in any order.
Collect(i) ==
    /\ pc = "ocr"
    /\ Cardinality(Submitted) = NumPages
    /\ i \in Submitted \ collected
    /\ fut[i] = "done"
    /\ collected' = collected \cup {i}
    /\ page_texts' = StoreResult(page_texts, i, fut_result[i])
    /\ hist' = [hist EXCEPT
                  !.writes = Put(@, StoredKey(i, fut_result[i]),
                                 Get(@, StoredKey(i, fut_result[i]), 0) + 1),
                  !.reverse = @ /\ i = NumPages - 1 - Cardinality(collected)]
    /\ UNCHANGED << doc_model, request, pc, temp_exists, temp_path, images,
                    fut, fut_result, predictions, response >>

LoopDone_FirstCompleted == collected # {} \/ Submitted = {}

\* The as_completed loop ends when every submitted future was yielded.
LoopDone == collected = Submitted

\* Line 96: leaving the with block (shutdown(wait=True)) after the loop.
PoolShutdown ==
    /\ pc = "ocr"
    /\ Cardinality(Submitted) = NumPages
    /\ LoopDone
    /\ pc' = "classify"
    /\ hist' = [hist EXCEPT !.reverse = FALSE]
    /\ UNCHANGED << doc_model, request, temp_exists, temp_path, images, fut,
                    fut_result, collected, page_texts, predictions, response >>

\* ---------------------------------------------------------- classification
\* The outcomes the two classifier calls can have with this model: the
\* call of predict_proba is only made when the model has that attribute.
OutcomesOf(model) ==
    IF model.has_proba
    THEN ClassifyOutcomes
    ELSE ClassifyOutcomes \ {"proba_fault", "proba_attribute_error"}

\* Lines 115-143: one iteration of the loop, for i = len(predictions).
Classify ==
    /\ pc = "classify"
    /\ Len(predictions) < NumPages
    /\ \E outcome \in OutcomesOf(doc_model) :
         /\ predictions' =
              Append(predictions,
                     ClassifyPage(Len(predictions),
                                  Get(page_texts, Len(predictions), <<>>),
                                  doc_model, outcome))
         /\ hist' = [hist EXCEPT !.outcomes = Append(@, outcome # "ok")]
    /\ UNCHANGED << doc_model, request, pc, temp_exists, temp_path, images,
                    fut, fut_result, collected, page_texts, response >>

\* Lines 150-155
SuccessPayload ==
    [success |-> TRUE, filename |-> request.filename,
     page_count |-> Len(predictions), predictions |-> predictions]

\* Lines 146-155: os.unlink(temp_path), then the success response; building
\* the response may fault after the file was removed.
Respond ==
    /\ pc = "classify"
    /\ Len(predictions) = NumPages
    /\ IF UnlinkRaises(temp_path, temp_exists)
       THEN HandleException(hist, "unlink", temp_path, temp_exists)
       ELSE \/ /\ temp_exists' = FALSE
               /\ Reply(hist, 200, SuccessPayload)
            \/ HandleException(hist, "respond", temp_path, FALSE)
    /\ UNCHANGED << doc_model, request, temp_path, images, fut, fut_result,
                    collected, page_texts, predictions >>

Next ==
    \/ CheckModel
    \/ Validate
    \/ SaveUpload
    \/ Rasterize
    \/ Submit
    \/ WorkerStart
    \/ \E i \in Submitted : WorkerFinish(i)
    \/ \E i \in Submitted : WorkerHang(i)
    \/ \E i \in Submitted : Collect(i)
    \/ PoolShutdown
    \/ Classify
    \/ Respond

Spec == Init /\ [][Next]_vars

\* The handler's thread and the pool's threads keep running: whenever some
\* step other than a hang is possible, one is eventually taken.  Nothing
\* makes a call into the OCR engine return, so a running task may hang
\* instead of finishing, and a hung task never finishes.
Progress ==
    \/ CheckModel
    \/ Validate
    \/ SaveUpload
    \/ Rasterize
    \/ Submit
    \/ WorkerStart
    \/ \E i \in Submitted : WorkerFinish(i)
    \/ \E i \in Submitted : Collect(i)
    \/ PoolShutdown
    \/ Classify
    \/ Respond

FairSpec == Spec /\ WF_vars(Progress)

\* ------------------------------------------------------------- properties
Done == pc = "done"
Succeeded == Done /\ response.status = 200
Failed(status) == Done /\ response.status = status

\* The request got past the model check and the validation.
Validated == hist.temp_created \/ hist.top_fault # "none"

\* The text printed on page index i: the lines of its image in reading order.
TextOnPage(i) == Join(images[i + 1])

\* What recognition of page index i gave: the printed text, or the empty
\* text when the engine faulted on that page.
RecognizedText(i) == IF i \in hist.ocr_faulted THEN <<>> ELSE TextOnPage(i)

SomeHung == \E i \in Submitted : fut[i] = "hung"

\* C1: a success payload lists exactly one prediction per rasterized page,
\* with page fields 1, 2, ..., N in that order, and page_count = N, whatever
\* OCR and classification faults occurred.
C1_OnePredictionPerPage ==
    Succeeded =>
        /\ Len(response.body.predictions) = NumPages
        /\ response.body.page_count = NumPages
        /\ \A k \in 1..NumPages : response.body.predictions[k].page = k

C1_Witness ==
    /\ Succeeded
    /\ NumPages >= 3
    /\ hist.ocr_faulted # {}
    /\ \E k \in 1..NumPages : hist.outcomes[k]
    /\ \E k \in 1..NumPages : ~hist.outcomes[k] /\ (k - 1) \notin hist.ocr_faulted

\* C2: whatever the order in which the OCR tasks complete and are collected,
\* the text classified for page i+1 is the text recognized from image i (the
\* empty text if its recognition faulted).
C2_TextsInPageOrder ==
    ((pc = "ocr" /\ Cardinality(Submitted) = NumPages /\ LoopDone)
        \/ pc = "classify" \/ Succeeded) =>
        \A i \in Pages :
            /\ Get(page_texts, i, <<>>) = RecognizedText(i)
            /\ i + 1 <= Len(predictions) =>
                 /\ predictions[i + 1].page = i + 1
                 /\ predictions[i + 1].text_length = Len(RecognizedText(i))
                 /\ ~hist.outcomes[i + 1] =>
                      predictions[i + 1].predicted_label
                          = Predict(RecognizedText(i))[1]

\* The loop has collected every page, in reverse page order, the pages
\* differ in their texts, and each text is under its own page's key.
C2_Witness ==
    /\ pc = "ocr"
    /\ NumPages >= 4
    /\ collected = Pages
    /\ hist.reverse
    /\ hist.ocr_faulted = {}
    /\ \E i, j \in Pages : page_texts[i] # page_texts[j]
    /\ \A i \in Pages : page_texts[i] = TextOnPage(i)

\* C3: in every terminal state with status 200 or 500 the temporary file the
\* request created no longer exists.
C3_TempFileRemoved ==
    (Failed(200) \/ Failed(500)) => ~temp_exists

\* C4: a page whose recognition faults gets the empty text and text_length 0,
\* every other page keeps its own text, and the fault alone never leads to
\* the failure handler or a 500.
C4_OcrFaultIsLocal ==
    /\ \A i \in Submitted :
         fut[i] = "done" => fut_result[i] =
             [tag |-> "value", value |-> << i, RecognizedText(i) >>]
    /\ \A k \in 1..Len(predictions) :
         predictions[k].text_length =
             IF (k - 1) \in hist.ocr_faulted THEN 0 ELSE Len(TextOnPage(k - 1))
    /\ Failed(500) => hist.top_fault # "none"
    /\ (Done /\ Validated /\ hist.top_fault = "none") => Succeeded

C4_Witness ==
    /\ Succeeded
    /\ NumPages >= 3
    /\ 1 \in hist.ocr_faulted
    /\ TextOnPage(1) # <<>>
    /\ predictions[2].text_length = 0
    /\ 0 \notin hist.ocr_faulted
    /\ predictions[1].text_length = Len(TextOnPage(0))
    /\ predictions[1].text_length > 0

\* C5: a page whose classification faults gets the label PREDICTION_ERROR and
\* no confidence, with text_length the length of its text; pages without a
\* fault get the model's label, and a confidence exactly when the model has a
\* probability interface; classification faults never lead to a 500.
C5_ClassificationFaultIsLocal ==
    /\ \A k \in 1..Len(predictions) :
         LET e == predictions[k]
             text == Get(page_texts, k - 1, <<>>)
         IN  /\ e.text_length = Len(text)
             /\ IF hist.outcomes[k]
                THEN e.predicted_label = "PREDICTION_ERROR" /\ e.confidence = None
                ELSE /\ e.predicted_label = Predict(text)[1]
                     /\ e.confidence =
                          IF doc_model.has_proba
                          THEN Float(Max(PredictProba(text)[1]))
                          ELSE None
    /\ Succeeded => Len(predictions) = NumPages
    /\ (Done /\ Validated /\ hist.top_fault = "none") => Succeeded

\* C6: without a loaded model every request ends in 503, whatever it holds,
\* and no temporary file, rasterization, OCR task or classification happens.
C6_NoModelGives503 ==
    doc_model = None =>
        /\ pc \in {"check_model", "done"}
        /\ Done => response.status = 503
        /\ ~hist.temp_created /\ ~temp_exists
        /\ hist.saves = 0 /\ hist.rasters = 0
        /\ Submitted = {} /\ predictions = <<>>

C6_Witness ==
    /\ doc_model = None
    /\ Failed(503)
    /\ request.hasFile
    /\ request.filename = <<"A", ".", "P", "d", "F">>

\* The requests the handler must reject: no file part, an empty file name, or
\* a name that does not end in .pdf in any letter case.
BadRequest ==
    \/ ~request.hasFile
    \/ request.filename \in { <<>>,
                              <<"a", ".", "t", "x", "t">>,
                              <<"a", "p", "d", "f">>,
                              <<"a", ".", "p", "d", "f", ".", "t">> }

\* C7: with a model loaded, a request without file part, with an empty file
\* name or with a name not ending in .pdf ends in 400, and no temporary file,
\* rasterization, OCR task or classification happens.
C7_BadRequestGives400 ==
    (doc_model # None /\ BadRequest) =>
        /\ pc \in {"check_model", "validate", "done"}
        /\ Done => response.status = 400
        /\ ~hist.temp_created /\ ~temp_exists
        /\ hist.saves = 0 /\ hist.rasters = 0
        /\ Submitted = {} /\ predictions = <<>>

C7_Witness ==
    /\ doc_model # None
    /\ request.filename = <<"a", "p", "d", "f">>
    /\ Failed(400)

\* C8: a top-level fault ends the request in a single 500 response carrying
\* error and details; save and rasterization run at most once, no OCR task
\* or classification runs after a fault before them, and no success payload
\* is sent.
C8_TopLevelFaultGives500 ==
    /\ hist.saves <= 1 /\ hist.rasters <= 1 /\ hist.responses <= 1
    /\ hist.top_fault # "none" =>
         /\ Done
         /\ response.status = 500
         /\ DOMAIN response.body = {"error", "details"}
         /\ hist.responses = 1
    /\ hist.top_fault \in {"mktemp", "save", "rasterize"} =>
         Submitted = {} /\ predictions = <<>>

C8_Witness ==
    /\ Failed(500)
    /\ hist.top_fault = "rasterize"
    /\ response.body.details = "rasterize"

\* C9: no page is classified while an OCR task of the request is pending or
\* running; when classification starts page_texts has exactly the keys
\* 0..N-1, each written once; classification goes in page order.
C9_BarrierBeforeClassification ==
    (pc = "classify" \/ Len(predictions) > 0) =>
        /\ Submitted = Pages
        /\ \A i \in Pages : fut[i] = "done"
        /\ DOMAIN page_texts = Pages
        /\ DOMAIN hist.writes = Pages
        /\ \A i \in Pages : hist.writes[i] = 1
        /\ \A k \in 1..Len(predictions) : predictions[k].page = k

C9_Witness ==
    /\ pc = "classify"
    /\ NumPages >= 3
    /\ Len(predictions) = 2

\* C10: at most 4 OCR tasks run at a time; a request responds only when all
\* its submitted OCR tasks have finished; a hung task stays hung and the
\* request then never responds; and unless a task hangs the request
\* eventually responds.
C10_RespondsIffOcrTerminates ==
    /\ [](Cardinality(Running) <= 4)
    /\ [](Done => \A i \in Submitted : fut[i] = "done")
    /\ [](SomeHung => ~Done)
    /\ [][SomeHung => SomeHung']_vars
    /\ <>(Done \/ SomeHung)

C10_Witness ==
    /\ NumPages >= 5
    /\ Cardinality(Running) = 4
    /\ Queued # {}
    /\ SomeHung

====
